---- MODULE Spec2Model ----
(***************************************************************************)
(* SynthoML: the statistical fallback generator (simple_generator.py), the *)
(* generation facade with its module-level cache (inference.py) and the    *)
(* training hook of the HTTP service (server.py).                          *)
(*                                                                         *)
(* Representation.                                                         *)
(*  - A float is a record [nan, v]: NaN, or the integer v (statistics are  *)
(*    computed on the integer grid, rounding towards minus infinity).      *)
(*    A missing cell of a table is NaN; the labels of an object-typed      *)
(*    column are coded as integers.                                        *)
(*  - Optional[int] is a sequence of length at most one: <<>> is None.     *)
(*  - A raised exception is the name of its Python class; "" is a normal   *)
(*    return.  ValueError is the spec's InvalidArgument, FileNotFoundError *)
(*    its NotFoundError.                                                   *)
(*  - numpy's global generator is a state in 0..RngMod-1; a draw reads the *)
(*    state and advances it.                                               *)
(***************************************************************************)
EXTENDS Integers, Sequences, FiniteSets, TLC

VARIABLES
    gen,        \* the SimpleGenerator object in use: columns, categorical_columns, stats
    rng,        \* numpy's process-wide generator state (np.random)
    ret,        \* the last completed call: operation, arguments, result
    tracked,    \* history kept for comparison: one earlier seeded sample call, the
                \* dict that was saved, or the training table that was read
    files,      \* the model files on disk, by path
    model_cache,\* inference._model_cache
    loaded,     \* history: the paths load_model has loaded successfully
    training_status, \* server.training_status
    tasks,      \* the background tasks train_model_background, by number
    pending,    \* upload requests past the is_training check, reading their body
    request,    \* the generate request the event loop is serving
    inference_py, \* whether inference.py exists in the working directory
    trained     \* history: the newest model version whose background task has ended

samplerVars == <<gen, tracked>>

facadeVars == <<files, model_cache, loaded>>

serverVars == <<training_status, tasks, pending, request, inference_py, trained>>

vars == <<gen, rng, ret, tracked, files, model_cache, loaded, training_status, tasks,
          pending, request, inference_py, trained>>

---------------------------------------------------------------------------
(* Bounds of the model *)

MaxRows == 2      \* training tables have 1..MaxRows rows
MaxN == 2         \* sample counts are drawn from -1..MaxN
MaxSeed == 1      \* seeds are drawn from 0..MaxSeed
RngMod == 4       \* size of the generator's state space
ZMax == 2         \* a standard normal draw is one of -ZMax..ZMax

---------------------------------------------------------------------------
(* Floats *)

NaN == [nan |-> TRUE, v |-> 0]

Num(x) == [nan |-> FALSE, v |-> x]

None == <<>>

Some(x) == <<x>>

\* np.maximum / np.minimum: a NaN operand gives NaN
FMax(a, b) == IF a.nan \/ b.nan THEN NaN ELSE IF a.v >= b.v THEN a ELSE b

FMin(a, b) == IF a.nan \/ b.nan THEN NaN ELSE IF a.v <= b.v THEN a ELSE b

\* loc + scale * z
FAddMul(loc, scale, z) == IF loc.nan \/ scale.nan THEN NaN ELSE Num(loc.v + scale.v * z)

RECURSIVE ISqrtFrom(_, _)
ISqrtFrom(x, r) == IF (r + 1) * (r + 1) > x THEN r ELSE ISqrtFrom(x, r + 1)

ISqrt(x) == ISqrtFrom(x, 0)

RECURSIVE SumSeq(_)
SumSeq(s) == IF s = <<>> THEN 0 ELSE Head(s) + SumSeq(Tail(s))

\* the non-missing values of a column, in row order
DropNa(s) ==
    LET Present(x) == ~x.nan
        kept == SelectSeq(s, Present)
    IN [i \in DOMAIN kept |-> kept[i].v]

SeqMin(s) == CHOOSE x \in {s[i] : i \in DOMAIN s} : \A j \in DOMAIN s : x <= s[j]

SeqMax(s) == CHOOSE x \in {s[i] : i \in DOMAIN s} : \A j \in DOMAIN s : x >= s[j]

---------------------------------------------------------------------------
(* Training tables (pandas DataFrames) *)

\* a cell: missing, or one of two values
Cells == {NaN, Num(1), Num(3)}

\* "age" holds numbers, "sex" holds labels (dtype object)
ColumnNames == {"age", "sex"}

ColumnLists == {<<"age", "sex">>, <<"sex", "age">>, <<"age">>}

Dtype(col) == IF col = "sex" THEN "object" ELSE "float64"

Range(s) == {s[i] : i \in DOMAIN s}

Tables ==
    UNION {UNION {{[columns |-> cols, data |-> d] : d \in [Range(cols) -> [1..k -> Cells]]}
                  : cols \in ColumnLists}
           : k \in 1..MaxRows}

---------------------------------------------------------------------------
(* simple_generator.py: SimpleGenerator *)

\* __init__
NewGenerator == [columns |-> <<>>, categorical_columns |-> {}, stats |-> <<>>]

\* the distinct values of s in first-seen order
RECURSIVE Distinct(_)
Distinct(s) ==
    IF s = <<>> THEN <<>>
    ELSE LET d == Distinct(SubSeq(s, 1, Len(s) - 1))
             x == s[Len(s)]
         IN IF x \in Range(d) THEN d ELSE Append(d, x)

Count(s, x) == Cardinality({i \in DOMAIN s : s[i] = x})

\* insert x into vals, which is sorted by descending count, after every value
\* whose count is at least that of x
RECURSIVE InsertByCount(_, _, _)
InsertByCount(vals, x, s) ==
    IF vals = <<>> THEN <<x>>
    ELSE IF Count(s, Head(vals)) >= Count(s, x)
         THEN <<Head(vals)>> \o InsertByCount(Tail(vals), x, s)
         ELSE <<x>> \o vals

RECURSIVE SortByCount(_, _)
SortByCount(d, s) ==
    IF d = <<>> THEN <<>>
    ELSE InsertByCount(SortByCount(SubSeq(d, 1, Len(d) - 1), s), d[Len(d)], s)

\* df[col].value_counts(normalize=True): missing cells are dropped, the values
\* come by descending frequency (ties in first-seen order), each with the
\* fraction count / total
ValueCounts(column) ==
    LET s == DropNa(column)
        vals == SortByCount(Distinct(s), s)
    IN [values |-> vals,
        probabilities |-> [i \in DOMAIN vals |-> [num |-> Count(s, vals[i]), den |-> Len(s)]]]

\* Series.mean(): NaN for a column without a value
Mean(column) ==
    LET s == DropNa(column)
    IN IF s = <<>> THEN NaN ELSE Num(SumSeq(s) \div Len(s))

\* Series.std(): the n-1 divisor; NaN when fewer than two values are present
Std(column) ==
    LET s == DropNa(column)
        m == SumSeq(s) \div Len(s)
    IN IF Len(s) < 2 THEN NaN
       ELSE Num(ISqrt(SumSeq([i \in DOMAIN s |-> (s[i] - m) * (s[i] - m)]) \div (Len(s) - 1)))

ColMin(column) == LET s == DropNa(column) IN IF s = <<>> THEN NaN ELSE Num(SeqMin(s))

ColMax(column) == LET s == DropNa(column) IN IF s = <<>> THEN NaN ELSE Num(SeqMax(s))

\* the summary fit stores for one column
ColumnStats(df, col, categorical_columns) ==
    IF col \in categorical_columns \/ Dtype(col) = "object"
    THEN [type |-> "categorical",
          values |-> ValueCounts(df.data[col]).values,
          probabilities |-> ValueCounts(df.data[col]).probabilities]
    ELSE [type |-> "numerical",
          mean |-> Mean(df.data[col]),
          std |-> Std(df.data[col]),
          min |-> ColMin(df.data[col]),
          max |-> ColMax(df.data[col])]

\* fit: columns and categorical_columns are replaced, stats is updated in place
Fit(g, df, categorical_columns) ==
    [columns |-> df.columns,
     categorical_columns |-> categorical_columns,
     stats |-> [c \in DOMAIN g.stats \cup Range(df.columns) |->
                   IF c \in Range(df.columns)
                   THEN ColumnStats(df, c, categorical_columns)
                   ELSE g.stats[c]]]

---------------------------------------------------------------------------
(* numpy's global generator *)

Advance(s) == (5 * s + 3) % RngMod

\* the n states read by n successive draws starting in state s
RECURSIVE Stream(_, _)
Stream(s, n) == IF n <= 0 THEN <<>> ELSE <<s>> \o Stream(Advance(s), n - 1)

RECURSIVE AdvanceBy(_, _)
AdvanceBy(s, n) == IF n <= 0 THEN s ELSE AdvanceBy(Advance(s), n - 1)

\* mutant: the seed is not applied
SeedRng_skipped(r, seed) == r

\* np.random.seed(seed), when a seed is given

SeedRng(r, seed) == IF seed = None THEN r ELSE seed[1] % RngMod

\* one draw of np.random.choice(values, p=probabilities): the uniform draw
\* u = s / RngMod selects the first value whose cumulative probability exceeds u
CumNum(probabilities, i) == SumSeq([j \in 1..i |-> probabilities[j].num])

ChoiceIndex(probabilities, s) ==
    1 + Cardinality({i \in DOMAIN probabilities :
                        CumNum(probabilities, i) * RngMod <= s * probabilities[i].den})

\* mutant: the position drawn is returned in place of the value at it
Choice_returnsIndex(values, probabilities, s) == Num(ChoiceIndex(probabilities, s) - 1)

Choice(values, probabilities, s) == Num(values[ChoiceIndex(probabilities, s)])

\* one draw of np.random.normal(mean, std)
Normal(mean, std, s) == FAddMul(mean, std, (s % (2 * ZMax + 1)) - ZMax)

\* np.clip
Clip(x, lo, hi) == FMin(FMax(x, lo), hi)

---------------------------------------------------------------------------
(* SimpleGenerator.sample *)

\* the n values drawn for one column, or the exception numpy raises:
\* a negative size, or a choice among no values, is a ValueError
SampleColumn(col_stats, n, s) ==
    IF n < 0 THEN [raised |-> "ValueError", values |-> <<>>, rng |-> s]
    ELSE IF col_stats.type = "categorical"
    THEN IF col_stats.values = <<>>
         THEN [raised |-> "ValueError", values |-> <<>>, rng |-> s]
         ELSE [raised |-> "",
               values |-> [i \in 1..n |->
                   Choice(col_stats.values, col_stats.probabilities, Stream(s, n)[i])],
               rng |-> AdvanceBy(s, n)]
    ELSE [raised |-> "",
          values |-> [i \in 1..n |->
              Clip(Normal(col_stats.mean, col_stats.std, Stream(s, n)[i]),
                   col_stats.min, col_stats.max)],
          rng |-> AdvanceBy(s, n)]

\* the loop over self.columns from position i on; synthetic_data is the dict
\* built so far
RECURSIVE SampleColumns(_, _, _, _, _)
SampleColumns(g, n, i, s, synthetic_data) ==
    IF i > Len(g.columns)
    THEN [raised |-> "", data |-> synthetic_data, rng |-> s]
    ELSE IF g.columns[i] \notin DOMAIN g.stats
    THEN [raised |-> "KeyError", data |-> <<>>, rng |-> s]
    ELSE LET c == SampleColumn(g.stats[g.columns[i]], n, s)
         IN IF c.raised # ""
            THEN [raised |-> c.raised, data |-> <<>>, rng |-> c.rng]
            ELSE SampleColumns(g, n, i + 1, c.rng,
                     [k \in DOMAIN synthetic_data \cup {g.columns[i]} |->
                         IF k = g.columns[i] THEN c.values ELSE synthetic_data[k]])

\* sample(n, seed) called with the global generator in state r: the DataFrame
\* returned (columns in the dict's insertion order) or the exception raised,
\* and the generator's state afterwards
SampleCall(g, n, seed, r) ==
    LET out == SampleColumns(g, n, 1, SeedRng(r, seed), <<>>)
    IN [raised |-> out.raised,
        columns |-> IF out.raised = "" THEN g.columns ELSE <<>>,
        data |-> out.data,
        rng |-> out.rng]

\* len(df)
NumRows(df) == IF df.columns = <<>> THEN 0 ELSE Len(df.data[df.columns[1]])

Result(out) == [raised |-> out.raised, columns |-> out.columns, data |-> out.data]

NoResult == [raised |-> "", columns |-> <<>>, data |-> <<>>]

---------------------------------------------------------------------------
(* train_simple_generator *)

NuniqueMax == 20

\* categorical_cols is None: object columns and columns of low cardinality
AutoDetect(df) ==
    {c \in Range(df.columns) :
        Dtype(c) = "object" \/ Cardinality(Range(DropNa(df.data[c]))) <= NuniqueMax}

\* the model_data dict returned for the table read from data_path
TrainSimpleGenerator(df, categorical_cols) ==
    LET cats == IF categorical_cols = None THEN AutoDetect(df) ELSE categorical_cols[1]
    IN [model |-> Fit(NewGenerator, df, cats),
        library |-> "simple-statistical",
        categorical_columns |-> cats,
        columns |-> df.columns]

---------------------------------------------------------------------------
(* A process that trains a generator and samples from it *)

SeedArgs == {None} \cup {Some(s) : s \in 0..MaxSeed}

CountArgs == (0 - 1)..MaxN

CategoricalArgs == {None} \cup {Some(c) : c \in SUBSET ColumnNames}

\* no server in this process
NoServer ==
    /\ training_status = <<>>
    /\ tasks = <<>>
    /\ pending = 0
    /\ request = <<>>
    /\ inference_py = FALSE
    /\ trained = 0

\* no model file and no facade in this process
NoFacade ==
    /\ files = <<>>
    /\ model_cache = None
    /\ loaded = {}

InitSampler ==
    /\ gen = NewGenerator
    /\ rng \in 0..(RngMod - 1)
    /\ ret = [op |-> "init", n |-> 0, seed |-> None, result |-> NoResult]
    /\ tracked = None
    /\ NoFacade
    /\ NoServer

\* model_data = train_simple_generator(...); generator = model_data['model'].
\* A process trains once; the history starts again with the new generator.
Train(df, categorical_cols) ==
    /\ gen = NewGenerator
    /\ gen' = TrainSimpleGenerator(df, categorical_cols).model
    /\ ret' = [op |-> "train", n |-> 0, seed |-> None, result |-> NoResult]
    /\ tracked' = None
    /\ UNCHANGED <<rng, facadeVars, serverVars>>

\* generator.sample(n, seed)
DoSample(n, seed) ==
    LET out == SampleCall(gen, n, seed, rng)
    IN /\ rng' = out.rng
       /\ ret' = [op |-> "sample", n |-> n, seed |-> seed, result |-> Result(out)]
       /\ UNCHANGED <<gen, facadeVars, serverVars>>

\* a call; the history counts the calls made after the one it keeps (up to 2)
Sample(n, seed) ==
    /\ DoSample(n, seed)
    /\ tracked' = IF tracked = None THEN None
                  ELSE Some([tracked[1] EXCEPT !.later = IF @ < 2 THEN @ + 1 ELSE @])

NextSampler ==
    \/ \E df \in Tables, c \in CategoricalArgs : Train(df, c)
    \/ \E n \in CountArgs, seed \in SeedArgs : Sample(n, seed)

SpecSampler == InitSampler /\ [][NextSampler]_vars

---------------------------------------------------------------------------
(* A process that fits a generator object, and fits the same object once   *)
(* more on a table of one row                                              *)

InitFitter ==
    /\ gen = NewGenerator
    /\ rng = 0
    /\ ret = [op |-> "init"]
    /\ tracked = None
    /\ NoFacade
    /\ NoServer

\* generator.fit(df, categorical_columns): None stands for the empty list
DoFit(op, df, categorical_columns) ==
    LET cats == IF categorical_columns = None THEN {} ELSE categorical_columns[1]
    IN /\ gen' = Fit(gen, df, cats)
       /\ ret' = [op |-> op, df |-> df, categorical_columns |-> cats, raised |-> ""]
       /\ UNCHANGED <<rng, tracked, facadeVars, serverVars>>

\* the first fit of a new generator
FitCall(df, categorical_columns) ==
    /\ ret.op = "init"
    /\ DoFit("fit", df, categorical_columns)

RefitTables == {t \in Tables : NumRows(t) = 1}

\* a second fit of the same object
Refit(df, categorical_columns) ==
    /\ ret.op = "fit"
    /\ DoFit("refit", df, categorical_columns)

NextFitter ==
    \/ \E df \in Tables, c \in CategoricalArgs : FitCall(df, c)
    \/ \E df \in RefitTables, c \in CategoricalArgs : Refit(df, c)

SpecFitter == InitFitter /\ [][NextFitter]_vars

---------------------------------------------------------------------------
(* The same process, remembering one seeded call: the training table is    *)
(* complete (no missing cell) with the columns sex, age, and the           *)
(* categorical columns are auto-detected or declared empty                 *)

CompleteTables ==
    {t \in Tables : /\ t.columns = <<"sex", "age">>
                    /\ \A c \in Range(t.columns) : \A i \in DOMAIN t.data[c] : ~t.data[c][i].nan}

\* a seeded call with n > 0 that the history keeps
SampleAndTrack(n, seed) ==
    /\ tracked = None
    /\ seed # None
    /\ n > 0
    /\ DoSample(n, seed)
    /\ tracked' = Some([call |-> ret', later |-> 0])

NextSeeded ==
    \/ \E df \in CompleteTables, c \in {None, Some({})} : Train(df, c)
    \/ \E n \in CountArgs, seed \in SeedArgs : Sample(n, seed)
    \/ \E n \in CountArgs, seed \in SeedArgs : SampleAndTrack(n, seed)

SpecSeeded == InitSampler /\ [][NextSeeded]_vars

---------------------------------------------------------------------------
(* train_and_save_ctgan.py: the model file a training run writes *)

MaxUniqueCount == 20

\* max_unique_ratio = 0.3, as the fraction RatioNum / RatioDen
RatioNum == 3

RatioDen == 10

Nunique(column) == Cardinality(Range(DropNa(column)))

detect_categorical_columns(df) ==
    {c \in Range(df.columns) :
        \/ Dtype(c) = "object"
        \/ Nunique(df.data[c]) <= MaxUniqueCount
        \/ Nunique(df.data[c]) * RatioDen <= RatioNum * Len(df.data[c])}

\* main, on a host without sdv and ctgan: the dict handed to joblib.dump
TrainMain(df) ==
    LET categorical_cols == detect_categorical_columns(df)
        model_data == TrainSimpleGenerator(df, Some(categorical_cols))
    IN [keys |-> {"model", "library", "categorical_columns", "columns"},
        model |-> model_data.model,
        library |-> model_data.library,
        categorical_columns |-> categorical_cols,
        columns |-> df.columns]

\* two training tables
TableA ==
    [columns |-> <<"age", "sex">>,
     data |-> [age |-> <<Num(1), Num(3)>>, sex |-> <<Num(1), Num(1)>>]]

TableB ==
    [columns |-> <<"sex", "age">>,
     data |-> [age |-> <<Num(3), Num(3)>>, sex |-> <<Num(1), Num(3)>>]]

---------------------------------------------------------------------------
(* joblib.dump / joblib.load: the dict is written as a pickle stream and    *)
(* rebuilt from it by the unpickler's stack machine                        *)

\* Python values, as the pickler sees them
PyStr(s) == [t |-> "str", s |-> s]

PyFloat(f) == [t |-> "float", f |-> f]

PyNpFloat(p) == [t |-> "numpy.float64", p |-> p]

PyList(items) == [t |-> "list", items |-> items]

\* a dict: its items <<key, value>> in insertion order
PyDict(items) == [t |-> "dict", items |-> items]

PyObj(cls, state) == [t |-> "object", cls |-> cls, state |-> state]

\* the names of set S as a list: those of the list first, in its order
NameOrder == <<"age", "sex">>

SetToList(S, first) ==
    LET InS(x) == x \in S
        Other(x) == x \in S /\ x \notin Range(first)
    IN SelectSeq(first, InS) \o SelectSeq(NameOrder, Other)

\* self.stats[col], in the order fit writes the entries
StatsToPy(st) ==
    IF st.type = "categorical"
    THEN PyDict(<< <<PyStr("type"), PyStr(st.type)>>,
                   <<PyStr("values"),
                     PyList([i \in DOMAIN st.values |-> PyFloat(Num(st.values[i]))])>>,
                   <<PyStr("probabilities"),
                     PyList([i \in DOMAIN st.probabilities |->
                                PyNpFloat(st.probabilities[i])])>> >>)
    ELSE PyDict(<< <<PyStr("type"), PyStr(st.type)>>,
                   <<PyStr("mean"), PyFloat(st.mean)>>,
                   <<PyStr("std"), PyFloat(st.std)>>,
                   <<PyStr("min"), PyFloat(st.min)>>,
                   <<PyStr("max"), PyFloat(st.max)>> >>)

StrListToPy(names) == PyList([i \in DOMAIN names |-> PyStr(names[i])])

\* a SimpleGenerator instance: its class and its __dict__
GeneratorToPy(g) ==
    LET cols == SetToList(DOMAIN g.stats, g.columns)
    IN PyObj("simple_generator.SimpleGenerator",
             PyDict(<< <<PyStr("columns"), StrListToPy(g.columns)>>,
                       <<PyStr("categorical_columns"),
                         StrListToPy(SetToList(g.categorical_columns, g.columns))>>,
                       <<PyStr("stats"),
                         PyDict([i \in DOMAIN cols |->
                                    <<PyStr(cols[i]), StatsToPy(g.stats[cols[i]])>>])>> >>))

\* the model_data dict with the entries it holds
ContainerToPy(c) ==
    LET Held(k) == k \in c.keys
        ks == SelectSeq(<<"model", "library", "categorical_columns", "columns">>, Held)
        Value(k) == IF k = "model" THEN GeneratorToPy(c.model)
                    ELSE IF k = "library" THEN PyStr(c.library)
                    ELSE IF k = "categorical_columns"
                    THEN StrListToPy(SetToList(c.categorical_columns, c.columns))
                    ELSE StrListToPy(c.columns)
    IN PyDict([i \in DOMAIN ks |-> <<PyStr(ks[i]), Value(ks[i])>>])

\* one opcode of the stream with its argument: a string or the bytes of a number
Tok(op, s, n) == [op |-> op, s |-> s, n |-> n]

Op(op) == Tok(op, "", <<>>)

\* the 8 bytes of a double: sign, exponent all ones (NaN), magnitude
FloatBits(f) ==
    IF f.nan THEN <<0, 1, 0>>
    ELSE <<IF f.v < 0 THEN 1 ELSE 0, 0, IF f.v < 0 THEN 0 - f.v ELSE f.v>>

\* reading a double that loses NaN
FloatFromBits_nanAsZero(n) == Num(IF n[1] = 1 THEN 0 - n[3] ELSE n[3])

FloatFromBits(n) ==
    IF n[2] = 1 THEN NaN ELSE Num(IF n[1] = 1 THEN 0 - n[3] ELSE n[3])

RECURSIVE Pickle(_)
RECURSIVE PickleAll(_)
\* the opcodes that leave the values of vs on the stack, in order
PickleAll(vs) ==
    IF vs = <<>> THEN <<>> ELSE Pickle(Head(vs)) \o PickleAll(Tail(vs))

\* the opcodes that leave v on the stack
Pickle(v) ==
    IF v.t = "str" THEN <<Tok("BINUNICODE", v.s, <<>>)>>
    ELSE IF v.t = "float" THEN <<Tok("BINFLOAT", "", FloatBits(v.f))>>
    ELSE IF v.t = "numpy.float64" THEN <<Tok("NPSCALAR", "", <<v.p.num, v.p.den>>)>>
    ELSE IF v.t = "list"
    THEN IF v.items = <<>> THEN <<Op("EMPTY_LIST")>>
         ELSE <<Op("EMPTY_LIST"), Op("MARK")>> \o PickleAll(v.items) \o <<Op("APPENDS")>>
    ELSE IF v.t = "dict"
    THEN IF v.items = <<>> THEN <<Op("EMPTY_DICT")>>
         ELSE <<Op("EMPTY_DICT"), Op("MARK")>>
              \o PickleAll([i \in 1..(2 * Len(v.items)) |->
                              v.items[(i + 1) \div 2][IF i % 2 = 1 THEN 1 ELSE 2]])
              \o <<Op("SETITEMS")>>
    ELSE <<Tok("GLOBAL", v.cls, <<>>), Op("EMPTY_TUPLE"), Op("NEWOBJ")>>
         \o Pickle(v.state) \o <<Op("BUILD")>>

\* pickle.dumps
Dumps(v) == Pickle(v) \o <<Op("STOP")>>

LastMark(stack) ==
    CHOOSE m \in DOMAIN stack :
        /\ stack[m].t = "mark"
        /\ \A j \in (m + 1)..Len(stack) : stack[j].t # "mark"

\* the unpickler's stack after one opcode
UnpickleStep(tok, stack) ==
    LET top == Len(stack)
        m == LastMark(stack)
        above == SubSeq(stack, m + 1, top)
    IN CASE tok.op = "BINUNICODE" -> Append(stack, PyStr(tok.s))
         [] tok.op = "BINFLOAT" -> Append(stack, PyFloat(FloatFromBits(tok.n)))
         [] tok.op = "NPSCALAR" ->
                Append(stack, PyNpFloat([num |-> tok.n[1], den |-> tok.n[2]]))
         [] tok.op = "EMPTY_LIST" -> Append(stack, PyList(<<>>))
         [] tok.op = "EMPTY_DICT" -> Append(stack, PyDict(<<>>))
         [] tok.op = "EMPTY_TUPLE" -> Append(stack, [t |-> "tuple"])
         [] tok.op = "MARK" -> Append(stack, [t |-> "mark"])
         [] tok.op = "GLOBAL" -> Append(stack, [t |-> "class", s |-> tok.s])
         [] tok.op = "APPENDS" ->
                Append(SubSeq(stack, 1, m - 2), PyList(stack[m - 1].items \o above))
         [] tok.op = "SETITEMS" ->
                Append(SubSeq(stack, 1, m - 2),
                       PyDict(stack[m - 1].items
                              \o [j \in 1..(Len(above) \div 2) |->
                                     <<above[2 * j - 1], above[2 * j]>>]))
         [] tok.op = "NEWOBJ" ->
                Append(SubSeq(stack, 1, top - 2), PyObj(stack[top - 1].s, PyDict(<<>>)))
         [] tok.op = "BUILD" ->
                Append(SubSeq(stack, 1, top - 2),
                       PyObj(stack[top - 1].cls, stack[top]))

RECURSIVE Unpickle(_, _, _)
Unpickle(tokens, i, stack) ==
    LET next == UnpickleStep(tokens[i], stack)
    IN IF tokens[i].op = "STOP" THEN stack[Len(stack)]
       ELSE IF Len(next) > 0 THEN Unpickle(tokens, i + 1, next)
       ELSE <<>>

\* pickle.loads
Loads(tokens) == Unpickle(tokens, 1, <<>>)

HasKey(d, key) == \E i \in DOMAIN d.items : d.items[i][1].s = key

GetItem(d, key) == d.items[CHOOSE i \in DOMAIN d.items : d.items[i][1].s = key][2]

StrListFromPy(v) == [i \in DOMAIN v.items |-> v.items[i].s]

StatsFromPy(d) ==
    IF GetItem(d, "type").s = "categorical"
    THEN [type |-> GetItem(d, "type").s,
          values |-> [i \in DOMAIN GetItem(d, "values").items |->
                         GetItem(d, "values").items[i].f.v],
          probabilities |-> [i \in DOMAIN GetItem(d, "probabilities").items |->
                                GetItem(d, "probabilities").items[i].p]]
    ELSE [type |-> GetItem(d, "type").s,
          mean |-> GetItem(d, "mean").f,
          std |-> GetItem(d, "std").f,
          min |-> GetItem(d, "min").f,
          max |-> GetItem(d, "max").f]

GeneratorFromPy(o) ==
    LET stats == GetItem(o.state, "stats")
    IN [columns |-> StrListFromPy(GetItem(o.state, "columns")),
        categorical_columns |-> Range(StrListFromPy(GetItem(o.state, "categorical_columns"))),
        stats |-> [c \in {stats.items[i][1].s : i \in DOMAIN stats.items} |->
                      StatsFromPy(GetItem(stats, c))]]

\* the loaded dict; an entry it does not hold reads as the empty value
ContainerFromPy(d) ==
    [keys |-> {d.items[i][1].s : i \in DOMAIN d.items},
     model |-> IF HasKey(d, "model") THEN GeneratorFromPy(GetItem(d, "model"))
               ELSE NewGenerator,
     library |-> IF HasKey(d, "library") THEN GetItem(d, "library").s ELSE "",
     categorical_columns |->
         IF HasKey(d, "categorical_columns")
         THEN Range(StrListFromPy(GetItem(d, "categorical_columns"))) ELSE {},
     columns |-> IF HasKey(d, "columns") THEN StrListFromPy(GetItem(d, "columns"))
                 ELSE <<>>]

\* joblib.dump(model_data, path): the bytes written
JoblibDump(obj) == Dumps(ContainerToPy(obj))

\* upload_and_train refuses a dataset of fewer rows
MinUploadRows == 5

\* an uploaded dataset that is accepted
UploadedTable ==
    [columns |-> <<"sex", "age">>,
     data |-> [age |-> <<Num(3), Num(3), Num(1), Num(3), Num(3)>>,
               sex |-> <<Num(1), Num(3), Num(3), Num(1), Num(3)>>]]

\* what a path may hold: nothing, bytes that do not unpickle, a pickled dict
\* (version is history: the number of the training run that wrote the file)
Absent == [kind |-> "absent", version |-> 0]

Corrupt == [kind |-> "corrupt", version |-> 0]

Pickled(obj) == [kind |-> "pickle", version |-> 0, bytes |-> JoblibDump(obj)]

\* a dict saved without its 'library' entry
WithoutLibrary(obj) == [obj EXCEPT !.keys = @ \ {"library"}, !.library = ""]

\* a dict saved without its 'model' entry
WithoutModel(obj) == [obj EXCEPT !.keys = @ \ {"model"}, !.model = NewGenerator]

\* a dict whose generator lists a column it holds no summary for
MissingSummary(obj) == [obj EXCEPT !.model.columns = Append(@, "bmi")]

\* a dict whose library tag names an implementation generate does not know
OtherLibrary(obj) == [obj EXCEPT !.library = "other"]

FileContents ==
    {Absent, Corrupt, Pickled(WithoutLibrary(TrainMain(TableA))),
     Pickled(TrainMain(TableA)), Pickled(TrainMain(TableB)),
     Pickled(WithoutModel(TrainMain(TableA))),
     Pickled(MissingSummary(TrainMain(TableA))),
     Pickled(OtherLibrary(TrainMain(TableA)))}

\* the dicts the model files of the processes below hold
StoredDicts ==
    {WithoutLibrary(TrainMain(TableA)), TrainMain(TableA), TrainMain(TableB),
     TrainMain(UploadedTable), WithoutModel(TrainMain(TableA)),
     MissingSummary(TrainMain(TableA)), OtherLibrary(TrainMain(TableA))}

DefaultPath == "ctgan_model.joblib"

Paths == {DefaultPath, "other.joblib"}

---------------------------------------------------------------------------
(* inference.py *)

\* the streams of the stored dicts, unpickled once
Unpickled == [b \in {JoblibDump(d) : d \in StoredDicts} |-> ContainerFromPy(Loads(b))]

\* joblib.load(model_path)
JoblibLoad(content) ==
    IF content.kind = "absent" THEN [raised |-> "FileNotFoundError", obj |-> None]
    ELSE IF content.kind = "corrupt" THEN [raised |-> "UnpicklingError", obj |-> None]
    ELSE [raised |-> "",
          obj |-> Some(IF content.bytes \in DOMAIN Unpickled
                       THEN Unpickled[content.bytes]
                       ELSE ContainerFromPy(Loads(content.bytes)))]

\* an entry of the cache: the loaded dict; from and version are history, the
\* path it was loaded from and the version of the file read
Entry(obj, path, version) == [obj |-> obj, from |-> path, version |-> version]

\* mutant: the cache is not consulted
load_model_alwaysLoads(cache, fs, model_path) ==
    LET r == JoblibLoad(fs[model_path])
    IN IF r.raised = "FileNotFoundError"
       THEN [raised |-> "FileNotFoundError", cache |-> None, read |-> TRUE]
       ELSE IF r.raised # ""
       THEN [raised |-> "Exception", cache |-> None, read |-> TRUE]
       ELSE [raised |-> IF "library" \in r.obj[1].keys THEN "" ELSE "Exception",
             cache |-> Some(Entry(r.obj[1], model_path, fs[model_path].version)),
                  read |-> TRUE]

\* load_model(model_path) with _model_cache = cache: the exception raised (the
\* value returned is the cache afterwards), the cache afterwards and whether
\* the file was read.  The assignment to _model_cache precedes the print that
\* reads its 'library' entry; a KeyError there is re-raised as Exception.
load_model(cache, fs, model_path) ==
    IF cache # None
    THEN [raised |-> "", cache |-> cache, read |-> FALSE]
    ELSE LET r == JoblibLoad(fs[model_path])
         IN IF r.raised = "FileNotFoundError"
            THEN [raised |-> "FileNotFoundError", cache |-> None, read |-> TRUE]
            ELSE IF r.raised # ""
            THEN [raised |-> "Exception", cache |-> None, read |-> TRUE]
            ELSE [raised |-> IF "library" \in r.obj[1].keys THEN "" ELSE "Exception",
                  cache |-> Some(Entry(r.obj[1], model_path, fs[model_path].version)),
                  read |-> TRUE]

\* the body of generate's try block: the call of model.sample the library tag
\* selects; every exception is re-raised as Exception
Dispatch(model_data, n, seed, r) ==
    LET out == IF model_data.library = "sdv"
               THEN [raised |-> "TypeError", columns |-> <<>>, data |-> <<>>, rng |-> r]
               ELSE IF model_data.library = "simple-statistical"
               THEN SampleCall(model_data.model, n, seed, r)
               ELSE SampleCall(model_data.model, n, None, SeedRng(r, seed))
    IN [out EXCEPT !.raised = IF @ = "" THEN "" ELSE "Exception"]

\* generate with the dict load_model returned
GenerateWith(model_data, n, seed, r) ==
    IF "model" \notin model_data.keys \/ "library" \notin model_data.keys
    THEN [raised |-> "KeyError", columns |-> <<>>, data |-> <<>>, rng |-> r]
    ELSE Dispatch(model_data, n, seed, r)

\* get_model_info with the dict load_model returned
ModelInfo(model_data) ==
    [library |-> IF "library" \in model_data.keys THEN model_data.library ELSE "unknown",
     columns |-> IF "columns" \in model_data.keys THEN model_data.columns ELSE <<>>,
     categorical_columns |->
         IF "categorical_columns" \in model_data.keys
         THEN model_data.categorical_columns ELSE {}]

NoInfo == [library |-> "", columns |-> <<>>, categorical_columns |-> {}]

---------------------------------------------------------------------------
(* A process that calls the facade (test_inference.py, the evaluation      *)
(* scripts); the files do not change while it runs, and the second path    *)
(* holds no file or a valid model                                          *)

InitFacade ==
    /\ gen = NewGenerator
    /\ tracked = None
    /\ rng \in 0..(RngMod - 1)
    /\ files \in [Paths -> FileContents]
    /\ files["other.joblib"] \in {Absent, Pickled(TrainMain(TableB))}
    /\ model_cache = None
    /\ loaded = {}
    /\ ret = [op |-> "init"]
    /\ NoServer

\* the record of a completed facade call: load is the exception load_model
\* raised ("" when it returned or was not called), read whether joblib.load
\* ran, known whether the path had been loaded successfully before the call,
\* from the path the dict used was loaded from ("" when none was used)
Call(op, n, seed, path, lm, raised, result, info) ==
    [op |-> op, n |-> n, seed |-> seed, path |-> path,
     raised |-> raised, result |-> result, info |-> info,
     load |-> lm.raised, read |-> lm.read, known |-> path \in loaded, rng |-> rng,
     from |-> IF lm.raised = "" /\ lm.cache # None THEN lm.cache[1].from ELSE ""]

NotCalled == [raised |-> "", cache |-> None, read |-> FALSE]

\* generate(n, seed, model_path)
Generate(n, seed, model_path) ==
    /\ IF n <= 0
       THEN /\ ret' = Call("generate", n, seed, model_path, NotCalled, "ValueError",
                           NoResult, NoInfo)
            /\ UNCHANGED <<model_cache, loaded, rng>>
       ELSE \E lm \in {load_model(model_cache, files, model_path)} :
            /\ model_cache' = lm.cache
            /\ loaded' = IF lm.read /\ lm.raised = "" THEN loaded \cup {model_path}
                         ELSE loaded
            /\ IF lm.raised # ""
               THEN /\ ret' = Call("generate", n, seed, model_path, lm, lm.raised,
                                   NoResult, NoInfo)
                    /\ UNCHANGED rng
               ELSE \E out \in {GenerateWith(lm.cache[1].obj, n, seed, rng)} :
                    /\ ret' = Call("generate", n, seed, model_path, lm, out.raised,
                                   Result(out), NoInfo)
                    /\ rng' = out.rng
    /\ UNCHANGED <<samplerVars, files, serverVars>>

\* get_model_info(model_path)
GetModelInfo(model_path) ==
    \E lm \in {load_model(model_cache, files, model_path)} :
       /\ model_cache' = lm.cache
       /\ loaded' = IF lm.read /\ lm.raised = "" THEN loaded \cup {model_path} ELSE loaded
       /\ ret' = Call("get_model_info", 0, None, model_path, lm, lm.raised, NoResult,
                      IF lm.raised = "" THEN ModelInfo(lm.cache[1].obj) ELSE NoInfo)
       /\ UNCHANGED <<samplerVars, files, rng, serverVars>>

NextFacade ==
    \/ \E n \in CountArgs, seed \in SeedArgs, p \in Paths : Generate(n, seed, p)
    \/ \E p \in Paths : GetModelInfo(p)

SpecFacade == InitFacade /\ [][NextFacade]_vars

---------------------------------------------------------------------------
(* A process that trains, saves the model file and loads it again          *)

\* the dict train_simple_generator returns, with the entries it holds
SimpleModelData(df, categorical_cols) ==
    LET model_data == TrainSimpleGenerator(df, categorical_cols)
    IN [keys |-> {"model", "library", "categorical_columns", "columns"},
        model |-> model_data.model,
        library |-> model_data.library,
        categorical_columns |-> model_data.categorical_columns,
        columns |-> model_data.columns]

InitPersist ==
    /\ gen = NewGenerator
    /\ tracked = None
    /\ rng = 0
    /\ files = [p \in {DefaultPath} |-> Absent]
    /\ model_cache = None
    /\ loaded = {}
    /\ ret = [op |-> "init"]
    /\ NoServer

\* joblib.dump(model_data, path); the history keeps the dict that was saved
Save(model_data) ==
    /\ files[DefaultPath] = Absent
    /\ files' = [files EXCEPT ![DefaultPath] = Pickled(model_data)]
    /\ tracked' = Some(model_data)
    /\ ret' = [op |-> "save"]
    /\ UNCHANGED <<gen, model_cache, loaded, rng, serverVars>>

\* train_and_save_ctgan.py main
TrainAndSave(df) == Save(TrainMain(df))

\* save_simple_model(train_simple_generator(data_path, categorical_cols))
SaveSimpleModel(df, categorical_cols) == Save(SimpleModelData(df, categorical_cols))

\* load_model(model_path)
LoadModel ==
    LET lm == load_model(model_cache, files, DefaultPath)
    IN /\ model_cache' = lm.cache
       /\ ret' = [op |-> "load", raised |-> lm.raised, read |-> lm.read]
       /\ UNCHANGED <<samplerVars, files, loaded, rng, serverVars>>

NextPersist ==
    \/ \E df \in Tables : TrainAndSave(df)
    \/ \E df \in Tables, c \in CategoricalArgs : SaveSimpleModel(df, c)
    \/ LoadModel

SpecPersist == InitPersist /\ [][NextPersist]_vars

---------------------------------------------------------------------------
(* The two training entry points that detect the categorical columns by    *)
(* themselves, run on the same data file                                   *)

\* the fewest rows for which MaxUniqueCount + 1 distinct values are within
\* max_unique_ratio
LongRows == ((MaxUniqueCount + 1) * RatioDen) \div RatioNum

\* a numeric column of LongRows rows holding k distinct values
LongTable(k) ==
    [columns |-> <<"age">>, data |-> [age |-> [i \in 1..LongRows |-> Num(1 + (i % k))]]]

DataFiles ==
    Tables \cup {LongTable(k) : k \in (MaxUniqueCount - 1)..(MaxUniqueCount + 2)}

InitDetect ==
    /\ gen = NewGenerator
    /\ rng = 0
    /\ tracked \in {Some(df) : df \in DataFiles}
    /\ ret = [op |-> "init"]
    /\ NoFacade
    /\ NoServer

\* train_and_save_ctgan.py main: categorical_cols = detect_categorical_columns(df)
DetectInMain ==
    /\ ret' = [op |-> "main",
               categorical_columns |-> detect_categorical_columns(tracked[1])]
    /\ UNCHANGED <<samplerVars, rng, facadeVars, serverVars>>

\* train_simple_generator(data_path) with categorical_cols = None: the loop
\* that fills categorical_cols
DetectInTrainSimpleGenerator ==
    /\ ret' = [op |-> "train_simple_generator",
               categorical_columns |-> AutoDetect(tracked[1])]
    /\ UNCHANGED <<samplerVars, rng, facadeVars, serverVars>>

NextDetect ==
    \/ DetectInMain
    \/ DetectInTrainSimpleGenerator

SpecDetect == InitDetect /\ [][NextDetect]_vars

---------------------------------------------------------------------------
(* server.py: the event loop serves the requests one at a time; a          *)
(* background task (train_model_background) runs in a worker thread and    *)
(* interleaves with the handlers statement by statement                    *)

MaxTrainings == 2   \* uploads accepted in one run of the server

TaskIds == 1..MaxTrainings

IdleRequest == [pc |-> "idle"]

IdleTask == [pc |-> "none", rc |-> 0, version |-> 0]

InitServer ==
    /\ gen = NewGenerator
    /\ tracked = None
    /\ loaded = {}
    /\ rng = 0
    /\ files \in [{DefaultPath} -> {Absent, Pickled(TrainMain(TableA))}]
    /\ model_cache = None
    /\ ret = [op |-> "init"]
    /\ training_status = [is_training |-> FALSE, progress |-> 0,
                          message |-> "No training in progress"]
    /\ tasks = [t \in TaskIds |-> IdleTask]
    /\ pending = 0
    /\ request = IdleRequest
    /\ inference_py \in BOOLEAN
    /\ trained = 0

Accepted == pending + Cardinality({t \in TaskIds : tasks[t].pc # "none"})

\* upload_and_train up to its first await: the is_training check
UploadCheck ==
    /\ request.pc = "idle"
    /\ Accepted < MaxTrainings
    /\ IF training_status.is_training
       THEN /\ ret' = [op |-> "/upload-train", raised |-> "HTTP400"]
            /\ UNCHANGED pending
       ELSE /\ pending' = pending + 1
            /\ UNCHANGED ret
    /\ UNCHANGED <<samplerVars, facadeVars, rng, training_status, tasks, request,
                   inference_py, trained>>

\* upload_and_train after the body is read: the dataset is refused for its
\* size, or saved as uploaded_data.csv and the background task added
UploadSchedule(df) ==
    /\ request.pc = "idle"
    /\ pending > 0
    /\ pending' = pending - 1
    /\ IF NumRows(df) >= MinUploadRows
       THEN LET t == CHOOSE u \in TaskIds : tasks[u].pc = "none"
            IN /\ tasks' = [tasks EXCEPT ![t].pc = "scheduled"]
               /\ ret' = [op |-> "/upload-train", raised |-> ""]
       ELSE /\ ret' = [op |-> "/upload-train", raised |-> "HTTP400"]
            /\ UNCHANGED tasks
    /\ UNCHANGED <<samplerVars, facadeVars, rng, training_status, request,
                   inference_py, trained>>

\* train_model_background, lines 175-178
TaskStart(t) ==
    /\ tasks[t].pc = "scheduled"
    /\ training_status' = [is_training |-> TRUE, progress |-> 0,
                           message |-> "Training started"]
    /\ tasks' = [tasks EXCEPT ![t].pc = "run"]
    /\ UNCHANGED <<samplerVars, facadeVars, rng, ret, pending, request,
                   inference_py, trained>>

NewestVersion == files[DefaultPath].version

\* the training subprocess reaches joblib.dump (train_and_save_ctgan.py:136)
SubprocessSave(t, df) ==
    /\ tasks[t].pc = "run"
    /\ files' = [files EXCEPT ![DefaultPath] =
                    [Pickled(TrainMain(df)) EXCEPT !.version = NewestVersion + 1]]
    /\ tasks' = [tasks EXCEPT ![t].pc = "saved", ![t].version = NewestVersion + 1]
    /\ UNCHANGED <<samplerVars, model_cache, loaded, rng, ret, training_status,
                   pending, request, inference_py, trained>>

\* subprocess.run returns: with code 0 only after the model was saved
SubprocessExit(t, rc) ==
    /\ \/ tasks[t].pc = "saved"
       \/ tasks[t].pc = "run" /\ rc # 0
    /\ tasks' = [tasks EXCEPT ![t].pc = "returned", ![t].rc = rc]
    /\ UNCHANGED <<samplerVars, facadeVars, rng, ret, training_status, pending,
                   request, inference_py, trained>>

\* lines 207-209: subprocess.run itself raises
SubprocessRaise(t) ==
    /\ tasks[t].pc = "run"
    /\ training_status' = [training_status EXCEPT !.is_training = FALSE,
                                                  !.message = "Training error"]
    /\ tasks' = [tasks EXCEPT ![t] = [IdleTask EXCEPT !.pc = "done"]]
    /\ UNCHANGED <<samplerVars, facadeVars, rng, ret, pending, request,
                   inference_py, trained>>

\* lines 193-196
TaskSucceeded(t) ==
    /\ tasks[t].pc = "returned"
    /\ tasks[t].rc = 0
    /\ training_status' = [is_training |-> FALSE, progress |-> 100,
                           message |-> "Training completed successfully!"]
    /\ tasks' = [tasks EXCEPT ![t].pc = "reload"]
    /\ UNCHANGED <<samplerVars, facadeVars, rng, ret, pending, request,
                   inference_py, trained>>

\* importlib.reload(inference) runs the module again: _model_cache = None
ReloadedCache(cache) == None

\* lines 198-201
TaskReload(t) ==
    /\ tasks[t].pc = "reload"
    /\ model_cache' = IF inference_py THEN ReloadedCache(model_cache) ELSE model_cache
    /\ tasks' = [tasks EXCEPT ![t] = [IdleTask EXCEPT !.pc = "done"]]
    /\ trained' = IF tasks[t].version > trained THEN tasks[t].version ELSE trained
    /\ UNCHANGED <<samplerVars, files, loaded, rng, ret, training_status, pending,
                   request, inference_py>>

\* lines 198-201 raise (import inference or importlib.reload fails before the
\* module body reaches _model_cache = None): lines 207-209 run, the cache is
\* left as it was; the training is not counted as ended in trained
TaskReloadRaise(t) ==
    /\ tasks[t].pc = "reload"
    /\ inference_py
    /\ training_status' = [training_status EXCEPT !.is_training = FALSE,
                                                  !.message = "Training error"]
    /\ tasks' = [tasks EXCEPT ![t] = [IdleTask EXCEPT !.pc = "done"]]
    /\ UNCHANGED <<samplerVars, facadeVars, rng, ret, pending, request,
                   inference_py, trained>>

\* mutant: a failed training leaves is_training set
TaskFailed_keepsFlag(t) ==
    /\ tasks[t].pc = "returned"
    /\ tasks[t].rc # 0
    /\ training_status' = [training_status EXCEPT !.message = "Training failed"]
    /\ tasks' = [tasks EXCEPT ![t] = [IdleTask EXCEPT !.pc = "done"]]
    /\ UNCHANGED <<samplerVars, facadeVars, rng, ret, pending, request,
                   inference_py, trained>>

\* lines 202-205
TaskFailed(t) ==
    /\ tasks[t].pc = "returned"
    /\ tasks[t].rc # 0
    /\ training_status' = [training_status EXCEPT !.is_training = FALSE,
                                                  !.message = "Training failed"]
    /\ tasks' = [tasks EXCEPT ![t] = [IdleTask EXCEPT !.pc = "done"]]
    /\ UNCHANGED <<samplerVars, facadeVars, rng, ret, pending, request,
                   inference_py, trained>>

\* the /generate handler ends: the table or the exception of generate
Respond(raised, used, result) ==
    /\ ret' = [op |-> "/generate", n |-> request.n, seed |-> request.seed,
               raised |-> raised, result |-> result, used |-> used,
               seen |-> request.seen, obtained |-> request.obtained,
               since |-> request.since]
    /\ request' = IdleRequest

\* generate(n, seed) enters load_model: if _model_cache is None
GenCheck(n, seed) ==
    /\ request.pc = "idle"
    /\ request' = [pc |-> IF model_cache = None THEN "load" ELSE "return",
                   n |-> n, seed |-> seed, seen |-> model_cache,
                   obtained |-> model_cache, model_data |-> None,
                   since |-> trained]
    /\ UNCHANGED <<samplerVars, facadeVars, rng, ret, training_status, tasks,
                   pending, inference_py, trained>>

\* joblib.load(model_path)
GenLoad ==
    /\ request.pc = "load"
    /\ LET r == JoblibLoad(files[DefaultPath])
       IN IF r.raised # ""
          THEN Respond(IF r.raised = "FileNotFoundError" THEN r.raised ELSE "Exception",
                       None, NoResult)
          ELSE /\ request' = [request EXCEPT
                      !.pc = "assign",
                      !.obtained = Some(Entry(r.obj[1], DefaultPath,
                                              files[DefaultPath].version))]
               /\ UNCHANGED ret
    /\ UNCHANGED <<samplerVars, facadeVars, rng, training_status, tasks, pending,
                   inference_py, trained>>

\* _model_cache = <the loaded dict>
GenAssign ==
    /\ request.pc = "assign"
    /\ model_cache' = request.obtained
    /\ request' = [request EXCEPT !.pc = "print"]
    /\ UNCHANGED <<samplerVars, files, loaded, rng, ret, training_status, tasks,
                   pending, inference_py, trained>>

\* print(f"... {_model_cache['library']}"): the global is read again
GenPrint ==
    /\ request.pc = "print"
    /\ IF model_cache = None \/ "library" \notin model_cache[1].obj.keys
       THEN Respond("Exception", None, NoResult)
       ELSE /\ request' = [request EXCEPT !.pc = "return"]
            /\ UNCHANGED ret
    /\ UNCHANGED <<samplerVars, facadeVars, rng, training_status, tasks, pending,
                   inference_py, trained>>

\* return _model_cache: the global is read again
GenReturn ==
    /\ request.pc = "return"
    /\ request' = [request EXCEPT !.pc = "use", !.model_data = model_cache]
    /\ UNCHANGED <<samplerVars, facadeVars, rng, ret, training_status, tasks,
                   pending, inference_py, trained>>

\* generate, lines 34-58, on the value load_model returned
GenUse ==
    /\ request.pc = "use"
    /\ IF request.model_data = None
       THEN /\ Respond("TypeError", None, NoResult)
            /\ UNCHANGED rng
       ELSE LET out == GenerateWith(request.model_data[1].obj, request.n,
                                    request.seed, rng)
            IN /\ Respond(out.raised, Some(request.model_data[1].version), Result(out))
               /\ rng' = out.rng
    /\ UNCHANGED <<samplerVars, facadeVars, training_status, tasks, pending,
                   inference_py, trained>>

NextServer ==
    \/ UploadCheck
    \/ \E df \in {TableA, UploadedTable} : UploadSchedule(df)
    \/ \E t \in TaskIds : TaskStart(t)
    \/ \E t \in TaskIds, df \in {UploadedTable} : SubprocessSave(t, df)
    \/ \E t \in TaskIds, rc \in {0, 1} : SubprocessExit(t, rc)
    \/ \E t \in TaskIds : SubprocessRaise(t)
    \/ \E t \in TaskIds : TaskSucceeded(t)
    \/ \E t \in TaskIds : TaskReload(t)
    \/ \E t \in TaskIds : TaskReloadRaise(t)
    \/ \E t \in TaskIds : TaskFailed(t)
    \/ \E n \in {1}, seed \in {Some(0)} : GenCheck(n, seed)
    \/ GenLoad
    \/ GenAssign
    \/ GenPrint
    \/ GenReturn
    \/ GenUse

SpecServer == InitServer /\ [][NextServer]_vars

\* the server while only /upload-train requests arrive
NextTraining ==
    \/ UploadCheck
    \/ \E df \in {TableA, UploadedTable} : UploadSchedule(df)
    \/ \E t \in TaskIds : TaskStart(t)
    \/ \E t \in TaskIds, df \in {UploadedTable} : SubprocessSave(t, df)
    \/ \E t \in TaskIds, rc \in {0, 1} : SubprocessExit(t, rc)
    \/ \E t \in TaskIds : SubprocessRaise(t)
    \/ \E t \in TaskIds : TaskSucceeded(t)
    \/ \E t \in TaskIds : TaskReload(t)
    \/ \E t \in TaskIds : TaskReloadRaise(t)
    \/ \E t \in TaskIds : TaskFailed(t)

\* the worker thread of a background task keeps running until the task
\* function returns, and the training subprocess terminates
TaskFairness ==
    \A t \in TaskIds :
        /\ WF_vars(TaskStart(t))
        /\ WF_vars(\E rc \in {0, 1} : SubprocessExit(t, rc))
        /\ WF_vars(TaskSucceeded(t))
        /\ WF_vars(TaskReload(t) \/ TaskReloadRaise(t))
        /\ WF_vars(TaskFailed(t))

SpecTraining == InitServer /\ [][NextTraining]_vars /\ TaskFairness

---------------------------------------------------------------------------
(* Claims about the sampler *)

Fitted == gen.columns # <<>>

Returned == ret.op = "sample" /\ ret.result.raised = ""

\* C1: a seeded call with the key (n, seed) of the remembered call returns the
\* table the remembered call returned, cell for cell, whatever calls were
\* made before the first or between the two
C1_SeededSamplingDeterministic ==
    (/\ tracked # None
     /\ ret.op = "sample"
     /\ ret.n = tracked[1].call.n
     /\ ret.seed = tracked[1].call.seed)
    => ret.result = tracked[1].call.result

\* a second call with the remembered key, after a call in between, returning
\* a table of at least two rows with two different cells in one column
C1_Witness ==
    /\ tracked # None
    /\ tracked[1].later = 2
    /\ ret.op = "sample"
    /\ ret.n = tracked[1].call.n
    /\ ret.seed = tracked[1].call.seed
    /\ ret.result.raised = ""
    /\ \E c \in Range(ret.result.columns) :
          \E i, j \in DOMAIN ret.result.data[c] : ret.result.data[c][i] # ret.result.data[c][j]

\* C2: for a fitted generator and n > 0, sample returns a table of exactly n
\* rows whose columns are the declared columns in the declared order
C2_SampleShape ==
    (Fitted /\ ret.op = "sample" /\ ret.n > 0)
    => /\ ret.result.raised = ""
       /\ ret.result.columns = gen.columns
       /\ NumRows(ret.result) = ret.n
       /\ \A c \in Range(gen.columns) : Len(ret.result.data[c]) = ret.n

InRange(x, lo, hi) == ~x.nan /\ ~lo.nan /\ ~hi.nan /\ lo.v <= x.v /\ x.v <= hi.v

\* C3: every value sample returns for a numerical column lies in the closed
\* interval [stored min, stored max]
C3_RangeContainment ==
    (Fitted /\ Returned)
    => \A c \in Range(gen.columns) :
          gen.stats[c].type = "numerical"
          => \A i \in DOMAIN ret.result.data[c] :
                InRange(ret.result.data[c][i], gen.stats[c].min, gen.stats[c].max)

\* C17: for a numerical column whose training values all equal one value v
\* (stored min = stored max = v), every value of the column in a table sample
\* returns for n > 0 equals v.
C17_DegenerateColumn ==
    (Fitted /\ Returned /\ ret.n > 0)
    => \A c \in Range(gen.columns) :
          (/\ gen.stats[c].type = "numerical"
           /\ ~gen.stats[c].min.nan
           /\ gen.stats[c].min = gen.stats[c].max)
          => \A i \in 1..ret.n : ret.result.data[c][i] = gen.stats[c].min

\* C4: every value sample returns for a categorical column is one of the
\* values stored in the column's summary
C4_DistributionContainment ==
    (Fitted /\ Returned)
    => \A c \in Range(gen.columns) :
          gen.stats[c].type = "categorical"
          => \A i \in DOMAIN ret.result.data[c] :
                /\ ~ret.result.data[c][i].nan
                /\ ret.result.data[c][i].v \in Range(gen.stats[c].values)

\* a returned table of two rows with a categorical column of two stored
\* values, both of which were drawn
C4_Witness ==
    /\ Fitted
    /\ Returned
    /\ ret.n = 2
    /\ \E c \in Range(gen.columns) :
          /\ gen.stats[c].type = "categorical"
          /\ Len(gen.stats[c].values) = 2
          /\ ret.result.data[c][1] # ret.result.data[c][2]

\* C5: a sample call on a fitted generator with n <= 0 raises ValueError and
\* returns no table
C5_NonPositiveCountRejected ==
    (Fitted /\ ret.op = "sample" /\ ret.n <= 0) => ret.result.raised = "ValueError"

---------------------------------------------------------------------------
(* Claims about the facade's cache *)

FacadeCall == ret.op \in {"generate", "get_model_info"}

\* C6: a call naming path P works on the dict loaded from P
C6_CacheKeyedByPath ==
    (FacadeCall /\ ret.from # "") => ret.from = ret.path

\* C7: a call naming a path that was loaded successfully earlier in the
\* process does not read the model file and works on the cached dict
C7_LoadOnce ==
    (FacadeCall /\ ret.known) => (~ret.read /\ ret.from \in {"", ret.path})

\* a generate call served from the cache for a path loaded earlier
C7_Witness ==
    /\ ret.op = "generate"
    /\ ret.known
    /\ ret.raised = ""
    /\ ret.from = ret.path
    /\ NumRows(ret.result) = 2

\* C8: whenever load_model raises, the cache is left empty
C8_OnlySuccessfulLoadRetained ==
    (FacadeCall /\ ret.load # "") => model_cache = None

---------------------------------------------------------------------------
(* Claims about fitting *)

FitReturned == ret.op \in {"fit", "refit"}

\* C14: after fit, every name in the column list and no other name has a
\* summary, the categorical set is a subset of the column list, and a
\* column's summary is the categorical variant exactly when the column is in
\* the categorical set.
C14_ContainerInvariant ==
    FitReturned =>
        /\ DOMAIN gen.stats = Range(gen.columns)
        /\ gen.categorical_columns \subseteq Range(gen.columns)
        /\ \A c \in Range(gen.columns) :
               gen.stats[c].type = "categorical" <=> c \in gen.categorical_columns

\* C16: fit called on a table with a column that has no non-missing value
\* fails with DataError; it does not return a generator.
C16_FitFailsOnEmptyColumn ==
    (/\ FitReturned
     /\ \E c \in Range(ret.df.columns) : DropNa(ret.df.data[c]) = <<>>)
        => ret.raised = "DataError"

\* C18: for a numerical column with exactly one non-missing value v, fit
\* stores standard deviation 0 and mean, min and max equal to v.
C18_SingleValueStdZero ==
    FitReturned =>
        \A c \in Range(ret.df.columns) :
            (gen.stats[c].type = "numerical" /\ Len(DropNa(ret.df.data[c])) = 1)
                => LET v == Num(DropNa(ret.df.data[c])[1])
                   IN /\ gen.stats[c].std = Num(0)
                      /\ gen.stats[c].mean = v
                      /\ gen.stats[c].min = v
                      /\ gen.stats[c].max = v

\* C15: each entry point that detects the categorical columns flags a column
\* exactly when it is non-numeric, or has at most 20 distinct values, or its
\* distinct values are at most 0.3 of the rows; so both yield the same set.
C15_AutoDetectionPolicy ==
    ret.op \in {"main", "train_simple_generator"} =>
        LET df == tracked[1]
        IN ret.categorical_columns =
               {c \in Range(df.columns) :
                   LET distinct == Cardinality(Range(DropNa(df.data[c])))
                   IN \/ Dtype(c) = "object"
                      \/ distinct <= 20
                      \/ 10 * distinct <= 3 * Len(df.data[c])}

---------------------------------------------------------------------------
(* Claims about errors and dispatch in the facade *)

\* the dict a completed generate call worked on holds a model and a tag
Sampled ==
    /\ ret.op = "generate"
    /\ ret.n > 0
    /\ ret.load = ""
    /\ model_cache # None
    /\ {"model", "library"} \subseteq model_cache[1].obj.keys

\* C12: an error raised by loading, or by the sampler, during a generate call
\* reaches generate's caller with its kind unchanged.
C12_ErrorPassThrough ==
    /\ (ret.op = "generate" /\ ret.load # "") => ret.raised = ret.load
    /\ (Sampled /\ model_cache[1].obj.library = "simple-statistical")
           => ret.raised = SampleCall(model_cache[1].obj.model, ret.n, ret.seed,
                                      ret.rng).raised

\* the entries of a model file's dict
RequiredKeys == {"model", "library", "categorical_columns", "columns"}

\* C13: a load that reads a path holding no file fails with the not-found
\* error; one that reads bytes that do not unpickle, or a dict that is not a
\* complete container, fails with the error load_model raises for a corrupt
\* model, which is not the not-found error.
C13_LoadFailureKinds ==
    (ret.op \in {"generate", "get_model_info"} /\ ret.read) =>
        LET content == files[ret.path]
        IN /\ content.kind = "absent" => ret.load = "FileNotFoundError"
           /\ (\/ content.kind = "corrupt"
               \/ /\ content.kind = "pickle"
                  /\ JoblibLoad(content).obj[1].keys # RequiredKeys)
                  => ret.load = "Exception"

KnownLibraries == {"sdv", "ctgan", "simple-statistical"}

\* C19: for a dict tagged 'simple-statistical', generate returns the table
\* sample returns for the same n and seed; a dict whose tag names no known
\* implementation is not sampled.
C19_DispatchByTag ==
    Sampled =>
        LET model_data == model_cache[1].obj
            out == SampleCall(model_data.model, ret.n, ret.seed, ret.rng)
        IN /\ (model_data.library = "simple-statistical" /\ out.raised = "")
                  => ret.result = Result(out)
           /\ model_data.library \notin KnownLibraries => ret.raised # ""

---------------------------------------------------------------------------
(* Claims about persistence *)

\* C11: loading the model file that was saved returns a dict structurally
\* equal to the dict saved: same entries, library tag, ordered column list,
\* categorical set, and for every column the same summary with equal values,
\* probabilities, mean, std, min and max.
C11_PersistenceRoundTrip ==
    (ret.op = "load" /\ tracked # None)
        => (ret.raised = "" /\ model_cache = Some(Entry(tracked[1], DefaultPath, 0)))

\* a saved dict with a categorical column of two values and a numerical
\* column whose standard deviation is undefined has been loaded
C11_Witness ==
    /\ ret.op = "load"
    /\ ret.read
    /\ tracked # None
    /\ model_cache # None
    /\ model_cache[1].obj.columns = <<"sex", "age">>
    /\ model_cache[1].obj.model.stats["sex"].type = "categorical"
    /\ Len(model_cache[1].obj.model.stats["sex"].values) = 2
    /\ model_cache[1].obj.model.stats["age"].type = "numerical"
    /\ model_cache[1].obj.model.stats["age"].std = NaN
    /\ model_cache[1].obj.model.stats["age"].mean = Num(3)

---------------------------------------------------------------------------
(* Claims about the server *)

Served == ret.op = "/generate"

\* C9: a generate call that starts after a training run has completed
\* successfully (return code 0, new model file written, completion hook run
\* with inference.py found) and that returns a table has sampled from a
\* container at least as new as the one that training wrote, never from the
\* container cached before the training.
C9_InvalidationOnTrainingCompletion ==
    (Served /\ inference_py /\ ret.since > 0 /\ ret.raised = "")
        => (ret.used # None /\ ret.used[1] >= ret.since)

\* C10: a generate call that obtained a container when it started (found in
\* the cache, or read from the model file) completes, and completes using
\* that very container, whatever training completion and reload run in
\* between.
C10_SnapshotIsolation ==
    (Served /\ ret.obtained # None)
        => (ret.raised = "" /\ ret.used = Some(ret.obtained[1].version))

\* a training accepted by /upload-train whose background task has not yet
\* cleared is_training (lines 193, 203, 208)
Unfinished == {t \in TaskIds : tasks[t].pc \in {"scheduled", "run", "saved", "returned"}}

\* C20: at most one training is pending or in progress at any time: no
\* upload-train request is accepted while an accepted training is unfinished.
C20_SingleTraining == Cardinality(Unfinished) <= 1

\* C21: whenever is_training is True it is False again later, whichever way
\* the background tasks end (return code 0, another return code, an
\* exception of subprocess.run, an exception of the reload).
C21_TrainingStatusReturnsToIdle ==
    training_status.is_training ~> ~training_status.is_training

C21_Witness ==
    /\ ~training_status.is_training
    /\ training_status.message = "Training error"
    /\ \E t \in TaskIds : tasks[t].pc = "done"

====
